---- MODULE Spec2Model ----
(***************************************************************************)
(* IconPlus-Warehouse: the request-arbitration and item-state-transition   *)
(* engine (pendingRequestService, itemService, historyService) together    *)
(* with the page handlers that drive it (ItemList.handleBorrowReturn,      *)
(* ItemList.confirmArchive / confirmUnarchive, Dashboard.handleApproval).  *)
(*                                                                         *)
(* The store is the Supabase database (tables items, pending_requests,     *)
(* histories).  Every `await supabase...` is one atomic step against the   *)
(* store; a handler is a sequence of such steps, and the steps of the      *)
(* handlers of different browser sessions interleave freely.  Each write   *)
(* to the store may fail (the `error` branch of the call), which throws    *)
(* out of the handler and leaves what was written before in place.         *)
(***************************************************************************)
EXTENDS Integers, Sequences, FiniteSets, TLC

\* ------------------------------------------------------------------ bounds
\* Number of rows the pending_requests table receives in one run (ids are
\* fresh uuids, modelled as 1..MaxRequests).
MaxRequests == 2
\* Number of rows the histories table receives in one run.
MaxHistory == 4

\* ------------------------------------------------------------- universe
None == "null"          \* SQL NULL / JS null
Undef == "undefined"    \* a key absent from additionalData
ItemIds == {"X", "Y"}
Stock == {"X"}             \* the items table when a run starts: one createItem done
Employees == {"u1", "u2"}
Admins == {"adm"}
Users == Admins \cup Employees
Sessions == {"S1", "S2"}   \* browsers, each with its own localStorage and pages
\* Who uses which browser: everyone the second, all but u2 the first.
SessionUsers(s) == IF s = "S1" THEN Users \ {"u2"} ELSE Users

VARIABLES
  items,      \* table items: id -> row
  pending,    \* table pending_requests: set of rows
  history,    \* table histories, in insertion (timestamp) order
  nextId,     \* next fresh pending_requests.id
  faults,     \* store calls that will still answer with an error
  userId,     \* localStorage 'userId' of each browser session
  cache,      \* React state of the mounted page: items and pendingRequests as last loaded
  pc,         \* position of the session's running handler ("idle": none)
  cur,        \* the running handler's locals
  error,      \* how the session's last handler call ended
  active,     \* table users: status = 'active', per user
  sinceLogin, \* minutes since localStorage 'loginTime' was written, per session
  sinceActivity \* minutes since useAutoLogout's lastActivityRef was set, per session

vars == <<items, pending, history, nextId, faults, userId, cache, pc, cur, error, active,
          sinceLogin, sinceActivity>>

\* users.role (schema CHECK; App.UserRole)
Role(u) == IF u \in Admins THEN "admin" ELSE "employee"

\* A dashboard that lets every role decide.
AdminOnlyDropped(u) == TRUE

\* Dashboard.handleApproval, line 94: `if (userRole !== 'admin') return;`
AdminOnly(u) == Role(u) = "admin"

\* ------------------------------------------------------------ itemService
\* createItem: the row a new item starts with.
NewItem ==
  [status |-> "available", last_used_by |-> None, changed_by |-> "adm",
   archived_reason |-> None, archived_at |-> None]

\* An UPDATE that stamps archived_at on archive and never clears it again.
updateItemStatusKeepsArchive(row, status, changedBy, ad) ==
  [row EXCEPT !.status = status, !.changed_by = changedBy,
              !.last_used_by = IF ad.last_used_by # Undef THEN ad.last_used_by ELSE @,
              !.archived_at = IF status = "archived" THEN "ts" ELSE @,
              !.archived_reason = IF ad.archived_reason # Undef THEN ad.archived_reason ELSE @]

\* updateItemStatus: the row after the UPDATE built from (status, changedBy, additionalData).
\* ad is additionalData: [last_used_by, archived_reason], Undef for an absent key.
updateItemStatus(row, status, changedBy, ad) ==
  LET r1 == [row EXCEPT !.status = status, !.changed_by = changedBy]
      r2 == IF ad.last_used_by # Undef
              THEN [r1 EXCEPT !.last_used_by = ad.last_used_by] ELSE r1
      r3 == IF status = "archived"
              THEN [r2 EXCEPT !.archived_at = "ts",
                              !.archived_reason =
                                 IF ad.archived_reason \notin {Undef, None}
                                   THEN ad.archived_reason ELSE @]
              ELSE IF status = "available" /\ ad.archived_reason = None
                THEN [r2 EXCEPT !.archived_at = None, !.archived_reason = None]
                ELSE r2
  IN  IF ad.archived_reason # Undef
        THEN [r3 EXCEPT !.archived_reason = ad.archived_reason] ELSE r3

\* hasUserPendingRequest: .single() yields a row only when exactly one row matches
\* (zero rows and several rows are both PGRST116, data = null).
hasUserPendingRequest(q, itemId, user, actionType) ==
  Cardinality({r \in q : r.item = itemId /\ r.by = user /\ r.type = actionType}) = 1

\* A validation that lets every return request through.
validateReturnRequestNoCheck(row, user) == TRUE

\* validateReturnRequest
validateReturnRequest(row, user) ==
  row.status = "used" /\ row.last_used_by = user

\* --------------------------------------------------------- historyService
\* createEntry: the inserted row.  about/rtype stand for the details text, which
\* names the request's owner and the kind of request.
Entry(item, action, by, prev, new, about, rtype) ==
  [item |-> item, action |-> action, by |-> by, prev |-> prev, new |-> new,
   about |-> about, rtype |-> rtype]

\* ------------------------------------------------- pendingRequestService
getPendingRequestsForItem(q, itemId) == {r \in q : r.item = itemId}

\* A return that forgets to clear the borrower.
ApproveDataKeepsBorrower(req) ==
  [last_used_by |-> req.by, archived_reason |-> Undef]

\* An approval that parks the item in one of the schema's pending states.
NewStatusPending(type) == IF type = "use" THEN "pending_borrow" ELSE "pending_return"

\* approveRequest, lines 145-158
NewStatus(type) == IF type = "use" THEN "used" ELSE "available"
ApproveData(req) ==
  [last_used_by |-> IF req.type = "use" THEN req.by ELSE None,
   archived_reason |-> Undef]

\* Losers taken only among the requests of the approved request's type.
OtherRequestsSameType(q, req) ==
  {r \in getPendingRequestsForItem(q, req.item) : r.id # req.rid /\ r.type = req.type}

\* approveRequest, lines 140-143: otherRequests
OtherRequests(q, req) ==
  {r \in getPendingRequestsForItem(q, req.item) : r.id # req.rid}

\* A DELETE that names the approved request instead of its item.
ApproveDeletedOnlyWinner(q, req) == {r \in q : r.id = req.rid}

\* approveRequest step 4: the rows the bulk DELETE ... eq('item_id') removes
ApproveDeleted(q, req) == {r \in q : r.item = req.item}

\* A DELETE filtered by the item of the named request instead of its id.
deleteRequestOfItem(q, id) ==
  {r \in q : \A d \in q : d.id = id => r.item # d.item}

\* A DELETE whose filter matches no row.
deleteRequestNothing(q, id) == q

\* deleteRequest: DELETE ... eq('id')
deleteRequest(q, id) == {r \in q : r.id # id}

\* ---------------------------------------------------------------- locals
\* op: the running handler; rid, item, type, by: the request (approveRequest's and
\* rejectRequest's `request`, createRequest's params); status: the item status the
\* handler holds (request.item.status, item.status, selectedItem.status);
\* others, k: approveRequest's otherRequests and the position of its loop.
NoCur == [op |-> None, rid |-> 0, item |-> None, type |-> None, by |-> None,
          status |-> None, others |-> {}, k |-> 0]

\* What a page keeps of a load (useState items / pendingRequests): of each items
\* row the fields its handlers read, and the pending_requests rows.
Snapshot ==
  [items |-> [i \in DOMAIN items |->
                [status |-> items[i].status, last_used_by |-> items[i].last_used_by]],
   pending |-> pending]
NoCache == [items |-> <<>>, pending |-> {}]

CanFail == faults > 0
CanLog == Len(history) < MaxHistory

\* What a handler's catch block receives: the failed operation and the kind of failure.
NoError == [op |-> None, kind |-> None]
Failed(op, kind) == [op |-> op, kind |-> kind]

\* A handler ends: its locals are dropped, what it threw (if anything) is kept in `error`.
Finish(s, outcome) ==
  /\ pc' = [pc EXCEPT ![s] = "idle"]
  /\ cur' = [cur EXCEPT ![s] = NoCur]
  /\ error' = [error EXCEPT ![s] = outcome]

Goto(s, label) == pc' = [pc EXCEPT ![s] = label]

\* --------------------------------------------------------------- initial
Init ==
  /\ items = [i \in Stock |-> NewItem]
  /\ pending = {}
  /\ history = <<>>
  /\ nextId = 1
  /\ faults = 0
  /\ userId = [s \in Sessions |-> None]
  /\ cache = [s \in Sessions |-> NoCache]
  /\ pc = [s \in Sessions |-> "idle"]
  /\ cur = [s \in Sessions |-> NoCur]
  /\ error = [s \in Sessions |-> NoError]
  /\ active = [u \in Users |-> TRUE]
  /\ sinceLogin = [s \in Sessions |-> 0]
  /\ sinceActivity = [s \in Sessions |-> 0]

\* ------------------------------------------------------- login and logout
\* Login.handleLogin: authService.login (refused for an account that is not
\* active) + saveAuthData, then the app mounts the Dashboard or the item list, which
\* loads items and pending requests.
login(s, u) ==
  /\ pc[s] = "idle"
  /\ userId[s] = None
  /\ u \in SessionUsers(s)
  /\ active[u]
  /\ userId' = [userId EXCEPT ![s] = u]
  /\ cache' = [cache EXCEPT ![s] = Snapshot]
  /\ sinceLogin' = [sinceLogin EXCEPT ![s] = 0]
  /\ sinceActivity' = [sinceActivity EXCEPT ![s] = 0]
  /\ UNCHANGED <<active, items, pending, history, nextId, faults, pc, cur, error>>

\* AuthService.logout: localStorage is cleared and the pages unmount.
logout(s) ==
  /\ pc[s] = "idle"
  /\ userId[s] # None
  /\ userId' = [userId EXCEPT ![s] = None]
  /\ cache' = [cache EXCEPT ![s] = NoCache]
  /\ error' = [error EXCEPT ![s] = NoError]
  /\ sinceLogin' = [sinceLogin EXCEPT ![s] = 0]
  /\ sinceActivity' = [sinceActivity EXCEPT ![s] = 0]
  /\ UNCHANGED <<active, items, pending, history, nextId, faults, pc, cur>>

\* ---------------------------------------------------------------- loadData
\* ItemList.loadData / Dashboard.loadItems + loadPendingRequests when a page mounts
\* or is reloaded; ItemList.loadData also clears the page's error.
loadData(s) ==
  /\ pc[s] = "idle"
  /\ userId[s] # None
  /\ cache[s] # Snapshot \/ error[s] # NoError
  /\ cache' = [cache EXCEPT ![s] = Snapshot]
  /\ error' = [error EXCEPT ![s] = NoError]
  /\ UNCHANGED <<sinceLogin, sinceActivity, active, items, pending, history, nextId, faults, userId, pc, cur>>

\* The reload that ends a successful handler (ItemList line 144, 185, 317;
\* Dashboard line 114).
Reload(s) ==
  /\ pc[s] = "reload"
  /\ cache' = [cache EXCEPT ![s] = Snapshot]
  /\ Finish(s, NoError)
  /\ UNCHANGED <<sinceLogin, sinceActivity, active, items, pending, history, nextId, faults, userId>>

\* ------------------------------------------------------ handleBorrowReturn
\* ItemList.handleBorrowReturn up to the call of createRequest, and
\* createRequest's duplicate check (hasUserPendingRequest).  When the check's SELECT
\* answers with an error other than PGRST116, hasUserPendingRequest logs it and
\* returns false (itemService lines 211-216), so createRequest goes on.
handleBorrowReturn(s, i) ==
  LET me == userId[s]
      item == cache[s].items[i]
      actionType == IF item.status = "available" THEN "use" ELSE "return"
  IN
  /\ pc[s] = "idle"
  /\ me # None
  /\ Role(me) = "employee"
  /\ i \in DOMAIN cache[s].items
  /\ item.status \in {"available", "used"}
  /\ ~(item.status = "used" /\ item.last_used_by # me)
  /\ ~(\E r \in cache[s].pending : r.item = i /\ r.by = me /\ r.type = actionType)
  /\ \/ /\ hasUserPendingRequest(pending, i, me, actionType)
        /\ Finish(s, Failed("submit", "DuplicateRequest"))
        /\ UNCHANGED faults
     \/ /\ \/ ~hasUserPendingRequest(pending, i, me, actionType) /\ UNCHANGED faults
           \/ /\ hasUserPendingRequest(pending, i, me, actionType)
              /\ CanFail
              /\ faults' = faults - 1
        /\ Goto(s, IF actionType = "return" THEN "cr_validate" ELSE "cr_insert")
        /\ cur' = [cur EXCEPT ![s] = [NoCur EXCEPT !.op = "submit", !.item = i, !.type = actionType,
                                                    !.by = me, !.status = item.status]]
        /\ error' = [error EXCEPT ![s] = NoError]
  /\ UNCHANGED <<sinceLogin, sinceActivity, active, items, pending, history, nextId, userId, cache>>

\* createRequest, lines 25-31
createRequestValidate(s) ==
  /\ pc[s] = "cr_validate"
  /\ IF validateReturnRequest(items[cur[s].item], cur[s].by)
       THEN Goto(s, "cr_insert") /\ UNCHANGED <<cur, error>>
       ELSE Finish(s, Failed("submit", "NotAuthorizedForReturn"))
  /\ UNCHANGED <<sinceLogin, sinceActivity, active, items, pending, history, nextId, faults, userId, cache>>

\* createRequest, lines 33-47
createRequestInsert(s) ==
  /\ pc[s] = "cr_insert"
  /\ \/ /\ nextId <= MaxRequests
        /\ pending' = pending \cup
             {[id |-> nextId, item |-> cur[s].item, type |-> cur[s].type, by |-> cur[s].by]}
        /\ nextId' = nextId + 1
        /\ Goto(s, "hbr_history")
        /\ UNCHANGED <<cur, error, faults>>
     \/ /\ CanFail
        /\ faults' = faults - 1
        /\ Finish(s, Failed(cur[s].op, "StorageError"))
        /\ UNCHANGED <<pending, nextId>>
  /\ UNCHANGED <<sinceLogin, sinceActivity, active, items, history, userId, cache>>

\* handleBorrowReturn, lines 308-316
handleBorrowReturnHistory(s) ==
  /\ pc[s] = "hbr_history"
  /\ \/ /\ CanLog
        /\ history' = Append(history,
             Entry(cur[s].item,
                   IF cur[s].status = "available" THEN "requested_borrow" ELSE "requested_return",
                   cur[s].by, cur[s].status, cur[s].status, cur[s].by, cur[s].type))
        /\ Goto(s, "reload")
        /\ UNCHANGED <<cur, error, faults>>
     \/ /\ CanFail
        /\ faults' = faults - 1
        /\ Finish(s, Failed(cur[s].op, "StorageError"))
        /\ UNCHANGED history
  /\ UNCHANGED <<sinceLogin, sinceActivity, active, items, pending, nextId, userId, cache>>

\* ---------------------------------------------------------- handleApproval
\* Dashboard.handleApproval(requestId, approve) up to and including the first
\* store call of approveRequest / rejectRequest: the SELECT of the request
\* joined with its item (lines 120-136, 214-230).
handleApproval(s, rid, approve) ==
  /\ pc[s] = "idle"
  /\ userId[s] # None
  /\ AdminOnly(userId[s])
  /\ \E c \in cache[s].pending : c.id = rid
  /\ IF \E r \in pending : r.id = rid
       THEN LET r == CHOOSE r \in pending : r.id = rid IN
            /\ Goto(s, IF approve THEN "ap_list" ELSE "rj_history")
            /\ cur' = [cur EXCEPT ![s] = [NoCur EXCEPT
                         !.op = IF approve THEN "approve" ELSE "reject", !.rid = rid, !.item = r.item,
                         !.type = r.type, !.by = r.by, !.status = items[r.item].status]]
            /\ error' = [error EXCEPT ![s] = NoError]
       ELSE Finish(s, Failed(IF approve THEN "approve" ELSE "reject", "NotFound"))
  /\ UNCHANGED <<sinceLogin, sinceActivity, active, items, pending, history, nextId, faults, userId, cache>>

\* Dashboard.handleApproval called for a user who is not admin: it returns on its
\* first line, before any store call.
handleApprovalDenied(s, rid, approve) ==
  /\ pc[s] = "idle"
  /\ userId[s] # None
  /\ ~AdminOnly(userId[s])
  /\ \E c \in cache[s].pending : c.id = rid
  /\ Finish(s, Failed(IF approve THEN "approve" ELSE "reject", "Returned"))
  /\ UNCHANGED <<sinceLogin, sinceActivity, active, items, pending, history, nextId, faults, userId, cache>>

\* approveRequest, lines 138-143
approveList(s) ==
  /\ pc[s] = "ap_list"
  /\ cur' = [cur EXCEPT ![s].others = OtherRequests(pending, cur[s])]
  /\ Goto(s, "ap_update")
  /\ UNCHANGED <<sinceLogin, sinceActivity, active, items, pending, history, nextId, faults, userId, cache, error>>

\* approveRequest, lines 145-163
approveUpdate(s) ==
  /\ pc[s] = "ap_update"
  /\ \/ /\ items' = [items EXCEPT ![cur[s].item] =
                       updateItemStatus(@, NewStatus(cur[s].type), userId[s], ApproveData(cur[s]))]
        /\ Goto(s, "ap_history")
        /\ UNCHANGED <<cur, error, faults>>
     \/ /\ CanFail
        /\ faults' = faults - 1
        /\ Finish(s, Failed(cur[s].op, "StorageError"))
        /\ UNCHANGED items
  /\ UNCHANGED <<sinceLogin, sinceActivity, active, pending, history, nextId, userId, cache>>

\* approveRequest, lines 166-173: the winner's entry
WinnerEntry(req, approvedBy) ==
  Entry(req.item, IF req.type = "use" THEN "borrowed" ELSE "returned", approvedBy,
        req.status, NewStatus(req.type), req.by, req.type)

\* approveRequest, lines 179-186: the entry of an automatically rejected request o
RejectedEntry(req, o, approvedBy) ==
  Entry(req.item, "rejected", approvedBy, req.status, NewStatus(req.type), o.by, o.type)

\* approveRequest, lines 165-173
approveHistory(s) ==
  /\ pc[s] = "ap_history"
  /\ \/ /\ CanLog
        /\ history' = Append(history, WinnerEntry(cur[s], userId[s]))
        /\ Goto(s, "ap_reject")
        /\ UNCHANGED <<cur, error, faults>>
     \/ /\ CanFail
        /\ faults' = faults - 1
        /\ Finish(s, Failed(cur[s].op, "StorageError"))
        /\ UNCHANGED history
  /\ UNCHANGED <<sinceLogin, sinceActivity, active, items, pending, nextId, userId, cache>>

\* otherRequests[k]: the list is ordered by requested_at descending, the latest
\* insert first, so the k-th element (from 0) has k later rows before it.
OtherAt(others, k) ==
  CHOOSE r \in others : Cardinality({o \in others : o.id > r.id}) = k

\* approveRequest, lines 175-188: one turn of the loop, or its end.
\* (requested_by_user is the joined users row of a NOT NULL foreign key: never null.)
approveReject(s) ==
  /\ pc[s] = "ap_reject"
  /\ IF cur[s].k >= Cardinality(cur[s].others)
       THEN /\ Goto(s, "ap_delete")
            /\ UNCHANGED <<cur, error, faults, history>>
       ELSE LET o == OtherAt(cur[s].others, cur[s].k) IN
            \/ /\ CanLog
               /\ history' = Append(history, RejectedEntry(cur[s], o, userId[s]))
               /\ cur' = [cur EXCEPT ![s].k = @ + 1]
               /\ UNCHANGED <<pc, error, faults>>
            \/ /\ CanFail
               /\ faults' = faults - 1
               /\ Finish(s, Failed(cur[s].op, "StorageError"))
               /\ UNCHANGED history
  /\ UNCHANGED <<sinceLogin, sinceActivity, active, items, pending, nextId, userId, cache>>

\* approveRequest, lines 190-199
approveDelete(s) ==
  /\ pc[s] = "ap_delete"
  /\ \/ /\ pending' = pending \ ApproveDeleted(pending, cur[s])
        /\ Goto(s, "reload")
        /\ UNCHANGED <<cur, error, faults>>
     \/ /\ CanFail
        /\ faults' = faults - 1
        /\ Finish(s, Failed(cur[s].op, "StorageError"))
        /\ UNCHANGED pending
  /\ UNCHANGED <<sinceLogin, sinceActivity, active, items, history, nextId, userId, cache>>

\* rejectRequest, lines 232-241
rejectHistory(s) ==
  /\ pc[s] = "rj_history"
  /\ \/ /\ CanLog
        /\ history' = Append(history,
             Entry(cur[s].item, "rejected", userId[s], cur[s].status, cur[s].status,
                   cur[s].by, cur[s].type))
        /\ Goto(s, "rj_delete")
        /\ UNCHANGED <<cur, error, faults>>
     \/ /\ CanFail
        /\ faults' = faults - 1
        /\ Finish(s, Failed(cur[s].op, "StorageError"))
        /\ UNCHANGED history
  /\ UNCHANGED <<sinceLogin, sinceActivity, active, items, pending, nextId, userId, cache>>

\* A rejection that also puts the item back to available.
rejectDeleteResetsItem(s) ==
  /\ pc[s] = "rj_delete"
  /\ pending' = deleteRequest(pending, cur[s].rid)
  /\ items' = [items EXCEPT ![cur[s].item] =
                  updateItemStatus(@, "available", userId[s],
                                   [last_used_by |-> None, archived_reason |-> Undef])]
  /\ Goto(s, "reload")
  /\ UNCHANGED <<sinceLogin, sinceActivity, active, cur, error, faults, history, nextId, userId, cache>>

\* rejectRequest, lines 243-244
rejectDelete(s) ==
  /\ pc[s] = "rj_delete"
  /\ \/ /\ pending' = deleteRequest(pending, cur[s].rid)
        /\ Goto(s, "reload")
        /\ UNCHANGED <<cur, error, faults>>
     \/ /\ CanFail
        /\ faults' = faults - 1
        /\ Finish(s, Failed(cur[s].op, "StorageError"))
        /\ UNCHANGED pending
  /\ UNCHANGED <<sinceLogin, sinceActivity, active, items, history, nextId, userId, cache>>

\* ------------------------------------------------- archive and restore
\* ItemList.confirmArchive, lines 118-133.  The Archive button is rendered for an
\* admin on rows whose loaded status is neither archived nor used (lines 611-633).
confirmArchive(s, i) ==
  /\ pc[s] = "idle"
  /\ userId[s] # None
  /\ Role(userId[s]) = "admin"
  /\ i \in DOMAIN cache[s].items
  /\ cache[s].items[i].status \notin {"archived", "used"}
  /\ \/ /\ items' = [items EXCEPT ![i] =
             updateItemStatus(@, "archived", userId[s],
                              [last_used_by |-> Undef, archived_reason |-> "reason"])]
        /\ Goto(s, "ar_history")
        /\ cur' = [cur EXCEPT ![s] = [NoCur EXCEPT !.op = "archive", !.item = i,
                                        !.status = cache[s].items[i].status]]
        /\ error' = [error EXCEPT ![s] = NoError]
        /\ UNCHANGED faults
     \/ /\ CanFail
        /\ faults' = faults - 1
        /\ Finish(s, Failed("archive", "StorageError"))
        /\ UNCHANGED items
  /\ UNCHANGED <<sinceLogin, sinceActivity, active, pending, history, nextId, userId, cache>>

\* ItemList.confirmArchive, lines 135-142
confirmArchiveHistory(s) ==
  /\ pc[s] = "ar_history"
  /\ \/ /\ CanLog
        /\ history' = Append(history,
             Entry(cur[s].item, "archived", userId[s], cur[s].status, "archived", None, None))
        /\ Goto(s, "reload")
        /\ UNCHANGED <<cur, error, faults>>
     \/ /\ CanFail
        /\ faults' = faults - 1
        /\ Finish(s, Failed(cur[s].op, "StorageError"))
        /\ UNCHANGED history
  /\ UNCHANGED <<sinceLogin, sinceActivity, active, items, pending, nextId, userId, cache>>

\* ItemList.confirmUnarchive, lines 155-174.  The Restore button is rendered for an
\* admin on rows whose loaded status is archived (lines 611-615).
confirmUnarchive(s, i) ==
  /\ pc[s] = "idle"
  /\ userId[s] # None
  /\ Role(userId[s]) = "admin"
  /\ i \in DOMAIN cache[s].items
  /\ cache[s].items[i].status = "archived"
  /\ \/ /\ items' = [items EXCEPT ![i] =
             updateItemStatus(@, "available", userId[s],
                              [last_used_by |-> None, archived_reason |-> None])]
        /\ Goto(s, "un_history")
        /\ cur' = [cur EXCEPT ![s] = [NoCur EXCEPT !.op = "restore", !.item = i]]
        /\ error' = [error EXCEPT ![s] = NoError]
        /\ UNCHANGED faults
     \/ /\ CanFail
        /\ faults' = faults - 1
        /\ Finish(s, Failed("restore", "StorageError"))
        /\ UNCHANGED items
  /\ UNCHANGED <<sinceLogin, sinceActivity, active, pending, history, nextId, userId, cache>>

\* A restore that overwrites the latest history entry instead of adding one.
confirmUnarchiveHistoryRewrites(s) ==
  /\ pc[s] = "un_history"
  /\ history # <<>>
  /\ history' = [history EXCEPT ![Len(history)] =
                    Entry(cur[s].item, "edited", userId[s], "archived", "available", None, None)]
  /\ Goto(s, "reload")
  /\ UNCHANGED <<sinceLogin, sinceActivity, active, cur, error, faults, items, pending, nextId, userId, cache>>

\* ItemList.confirmUnarchive, lines 176-183
confirmUnarchiveHistory(s) ==
  /\ pc[s] = "un_history"
  /\ \/ /\ CanLog
        /\ history' = Append(history,
             Entry(cur[s].item, "edited", userId[s], "archived", "available", None, None))
        /\ Goto(s, "reload")
        /\ UNCHANGED <<cur, error, faults>>
     \/ /\ CanFail
        /\ faults' = faults - 1
        /\ Finish(s, Failed(cur[s].op, "StorageError"))
        /\ UNCHANGED history
  /\ UNCHANGED <<sinceLogin, sinceActivity, active, items, pending, nextId, userId, cache>>

Next ==
  \/ \E s \in Sessions, u \in Users : login(s, u)
  \/ \E s \in Sessions : logout(s)
  \/ \E s \in Sessions : loadData(s)
  \/ \E s \in Sessions : Reload(s)
  \/ \E s \in Sessions, i \in ItemIds : handleBorrowReturn(s, i)
  \/ \E s \in Sessions : createRequestValidate(s)
  \/ \E s \in Sessions : createRequestInsert(s)
  \/ \E s \in Sessions : handleBorrowReturnHistory(s)
  \/ \E s \in Sessions, rid \in 1..MaxRequests, approve \in BOOLEAN : handleApproval(s, rid, approve)
  \/ \E s \in Sessions, rid \in 1..MaxRequests, approve \in BOOLEAN : handleApprovalDenied(s, rid, approve)
  \/ \E s \in Sessions : approveList(s)
  \/ \E s \in Sessions : approveUpdate(s)
  \/ \E s \in Sessions : approveHistory(s)
  \/ \E s \in Sessions : approveReject(s)
  \/ \E s \in Sessions : approveDelete(s)
  \/ \E s \in Sessions : rejectHistory(s)
  \/ \E s \in Sessions : rejectDelete(s)
  \/ \E s \in Sessions, i \in ItemIds : confirmArchive(s, i)
  \/ \E s \in Sessions : confirmArchiveHistory(s)
  \/ \E s \in Sessions, i \in ItemIds : confirmUnarchive(s, i)
  \/ \E s \in Sessions : confirmUnarchiveHistory(s)

\* The queue operations alone: login, logout, load, submit, approve, reject.
NextQ ==
  \/ \E s \in Sessions, u \in Users : login(s, u)
  \/ \E s \in Sessions : logout(s)
  \/ \E s \in Sessions : loadData(s)
  \/ \E s \in Sessions : Reload(s)
  \/ \E s \in Sessions, i \in ItemIds : handleBorrowReturn(s, i)
  \/ \E s \in Sessions : createRequestValidate(s)
  \/ \E s \in Sessions : createRequestInsert(s)
  \/ \E s \in Sessions : handleBorrowReturnHistory(s)
  \/ \E s \in Sessions, rid \in 1..MaxRequests, approve \in BOOLEAN : handleApproval(s, rid, approve)
  \/ \E s \in Sessions, rid \in 1..MaxRequests, approve \in BOOLEAN : handleApprovalDenied(s, rid, approve)
  \/ \E s \in Sessions : approveList(s)
  \/ \E s \in Sessions : approveUpdate(s)
  \/ \E s \in Sessions : approveHistory(s)
  \/ \E s \in Sessions : approveReject(s)
  \/ \E s \in Sessions : approveDelete(s)
  \/ \E s \in Sessions : rejectHistory(s)
  \/ \E s \in Sessions : rejectDelete(s)

\* The program with a reliable store.
Spec == Init /\ [][Next]_vars

\* UserManagement.toggleUserStatus -> userService.toggleUserStatus: a manager, in a
\* browser of their own, switches the account of user u between active and deactive.
toggleUserStatus(u) ==
  /\ active' = [active EXCEPT ![u] = ~@]
  /\ UNCHANGED <<sinceLogin, sinceActivity, items, pending, history, nextId, faults, userId, cache, pc, cur, error>>

\* The queue operations with a reliable store and a manager who switches accounts
\* off and on.
NextU ==
  \/ NextQ
  \/ \E u \in Users : toggleUserStatus(u)

SpecU == Init /\ [][NextU]_vars

\* The queue operations on a stock of two items, with a reliable store.
InitI ==
  /\ items = [i \in ItemIds |-> NewItem]
  /\ pending = {}
  /\ history = <<>>
  /\ nextId = 1
  /\ faults = 0
  /\ userId = [s \in Sessions |-> None]
  /\ cache = [s \in Sessions |-> NoCache]
  /\ pc = [s \in Sessions |-> "idle"]
  /\ cur = [s \in Sessions |-> NoCur]
  /\ error = [s \in Sessions |-> NoError]
  /\ active = [u \in Users |-> TRUE]
  /\ sinceLogin = [s \in Sessions |-> 0]
  /\ sinceActivity = [s \in Sessions |-> 0]

SpecI == InitI /\ [][NextQ]_vars

\* The queue operations with a store that answers one call with an error.
InitF ==
  /\ items = [i \in Stock |-> NewItem]
  /\ pending = {}
  /\ history = <<>>
  /\ nextId = 1
  /\ faults = 1
  /\ userId = [s \in Sessions |-> None]
  /\ cache = [s \in Sessions |-> NoCache]
  /\ pc = [s \in Sessions |-> "idle"]
  /\ cur = [s \in Sessions |-> NoCur]
  /\ error = [s \in Sessions |-> NoError]
  /\ active = [u \in Users |-> TRUE]
  /\ sinceLogin = [s \in Sessions |-> 0]
  /\ sinceActivity = [s \in Sessions |-> 0]

SpecF == InitF /\ [][NextQ]_vars

\* ---------------------------------------------------------------- session expiry
\* Time is counted in whole minutes.  AuthService keeps the moment of the login
\* ('loginTime'); useAutoLogout keeps the moment of the last activity event.
\* A due timer fires before the next minute starts.

\* tenMinutesInMs of AuthService and timeoutMinutes of App's useAutoLogout.
SessionMinutes == 10

\* twoMinutesInMs of SessionWarning: the warning with the extend button.
WarningMinutes == 2

\* AuthService.getSessionTimeRemaining: counted from the login, not from the
\* last activity.
getSessionTimeRemaining(s) ==
  IF sinceLogin[s] >= SessionMinutes THEN 0 ELSE SessionMinutes - sinceLogin[s]

\* App.handleLogout, as the session machinery calls it.
handleLogout(s) ==
  /\ userId' = [userId EXCEPT ![s] = None]
  /\ cache' = [cache EXCEPT ![s] = NoCache]
  /\ error' = [error EXCEPT ![s] = NoError]
  /\ sinceLogin' = [sinceLogin EXCEPT ![s] = 0]
  /\ sinceActivity' = [sinceActivity EXCEPT ![s] = 0]
  /\ UNCHANGED <<active, items, pending, history, nextId, faults, pc, cur>>

\* One minute passes in every browser; no timer is overdue.
Tick ==
  /\ \E s \in Sessions : userId[s] # None
  /\ \A s \in Sessions : userId[s] # None =>
       /\ sinceLogin[s] < SessionMinutes
       /\ sinceActivity[s] < SessionMinutes
  /\ sinceLogin' = [s \in Sessions |->
       IF userId[s] # None THEN sinceLogin[s] + 1 ELSE sinceLogin[s]]
  /\ sinceActivity' = [s \in Sessions |->
       IF userId[s] # None THEN sinceActivity[s] + 1 ELSE sinceActivity[s]]
  /\ UNCHANGED <<active, items, pending, history, nextId, faults, userId, cache, pc, cur, error>>

\* useAutoLogout.resetTimeout: a mouse, key, scroll, touch or click event.
resetTimeout(s) ==
  /\ pc[s] = "idle"
  /\ userId[s] # None
  /\ sinceActivity[s] > 0
  /\ sinceActivity' = [sinceActivity EXCEPT ![s] = 0]
  /\ UNCHANGED <<sinceLogin, active, items, pending, history, nextId, faults, userId, cache, pc, cur, error>>

\* useAutoLogout's logout timer: set by the last resetTimeout, fires after
\* timeoutMinutes without another one.
autoLogoutTimeout(s) ==
  /\ pc[s] = "idle"
  /\ userId[s] # None
  /\ sinceActivity[s] >= SessionMinutes
  /\ handleLogout(s)

\* SessionWarning.checkSessionTime (every 15 seconds): logs out once the
\* remaining session time is used up.
checkSessionTime(s) ==
  /\ pc[s] = "idle"
  /\ userId[s] # None
  /\ getSessionTimeRemaining(s) <= 0
  /\ handleLogout(s)

\* App.handleExtendSession, from the button of the shown warning: saveAuthData
\* writes a new loginTime; the click is an activity event as well.
handleExtendSession(s) ==
  /\ pc[s] = "idle"
  /\ userId[s] # None
  /\ getSessionTimeRemaining(s) > 0
  /\ getSessionTimeRemaining(s) <= WarningMinutes
  /\ sinceLogin' = [sinceLogin EXCEPT ![s] = 0]
  /\ sinceActivity' = [sinceActivity EXCEPT ![s] = 0]
  /\ UNCHANGED <<active, items, pending, history, nextId, faults, userId, cache, pc, cur, error>>

NextT ==
  \/ \E s \in Sessions, u \in Users : login(s, u)
  \/ \E s \in Sessions : logout(s)
  \/ Tick
  \/ \E s \in Sessions : resetTimeout(s)
  \/ \E s \in Sessions : autoLogoutTimeout(s)
  \/ \E s \in Sessions : checkSessionTime(s)
  \/ \E s \in Sessions : handleExtendSession(s)

SpecT == Init /\ [][NextT]_vars

\* ---------------------------------------------------------------- AddItem
\* AddItem.onSubmit up to and including itemService.createItem: the INSERT of a
\* row with status 'available'.  The page is routed for admins only.
createItem(s, i) ==
  /\ pc[s] = "idle"
  /\ userId[s] # None
  /\ AdminOnly(userId[s])
  /\ i \in ItemIds \ DOMAIN items
  /\ \/ /\ items' = [j \in DOMAIN items \cup {i} |->
                       IF j = i THEN NewItem ELSE items[j]]
        /\ Goto(s, "ci_history")
        /\ cur' = [cur EXCEPT ![s] = [NoCur EXCEPT !.op = "create", !.item = i,
                                        !.status = "available"]]
        /\ error' = [error EXCEPT ![s] = NoError]
        /\ UNCHANGED faults
     \/ /\ CanFail
        /\ faults' = faults - 1
        /\ Finish(s, Failed("create", "StorageError"))
        /\ UNCHANGED items
  /\ UNCHANGED <<sinceLogin, sinceActivity, active, pending, history, nextId, userId, cache>>

\* AddItem.onSubmit: the 'created' entry, then the list page is shown again.
createItemHistory(s) ==
  /\ pc[s] = "ci_history"
  /\ \/ /\ CanLog
        /\ history' = Append(history,
             Entry(cur[s].item, "created", userId[s], None, "available", None, None))
        /\ Goto(s, "reload")
        /\ UNCHANGED <<cur, error, faults>>
     \/ /\ CanFail
        /\ faults' = faults - 1
        /\ Finish(s, Failed(cur[s].op, "StorageError"))
        /\ UNCHANGED history
  /\ UNCHANGED <<sinceLogin, sinceActivity, active, items, pending, nextId, userId, cache>>

NextC ==
  \/ Next
  \/ \E s \in Sessions, i \in ItemIds : createItem(s, i)
  \/ \E s \in Sessions : createItemHistory(s)

SpecC == Init /\ [][NextC]_vars

\* ------------------------------------------------------------ properties
Quiet == \A s \in Sessions : pc[s] = "idle"
Ids(q) == {r.id : r \in q}
\* approveRequest has updated the item and written the winner's entry
PastWinner(s) == cur[s].op = "approve" /\ pc[s] \in {"ap_reject", "ap_delete", "reload"}

\* C1: of two approveRequest calls that run at the same time for two different
\* requests on the same item, at most one updates the item and records a winner.
C1_SingleWinner ==
  \A s, t \in Sessions :
    (s # t /\ cur[s].item = cur[t].item /\ cur[s].rid # cur[t].rid)
      => ~(PastWinner(s) /\ PastWinner(t))

\* C2: an item that is used by U is never handed to another user V while it stays
\* used: a step never changes the borrower of an item that is used before and after.
C2_NoDoubleAllocation ==
  [][\A i \in DOMAIN items :
       (items[i].status = "used" /\ items'[i].status = "used")
         => items'[i].last_used_by = items[i].last_used_by]_vars

\* C3: in every reachable state an item is used exactly when it has a borrower.
C3_UsedIffBorrower ==
  \A i \in DOMAIN items : (items[i].status = "used") <=> (items[i].last_used_by # None)

\* C4: the step that completes approveRequest(r) leaves no pending request for
\* r's item, however many were pending and of whatever type.
C4_QueueEmptyAfterApprove ==
  [][\A s \in Sessions :
       (pc[s] = "ap_delete" /\ pc'[s] = "reload")
         => getPendingRequestsForItem(pending', cur[s].item) = {}]_vars

\* C4 witness: an approval has completed that had a competing request to clear.
C4_Witness ==
  \E s \in Sessions :
    /\ cur[s].op = "approve" /\ pc[s] = "reload"
    /\ cur[s].others # {}
    /\ getPendingRequestsForItem(pending, cur[s].item) = {}

\* C5: at most one pending request per (item, requester, type).
C5_OnePerTuple ==
  \A r1, r2 \in pending :
    (r1.item = r2.item /\ r1.by = r2.by /\ r1.type = r2.type) => r1 = r2

\* C6: a failed approveRequest leaves nothing behind.  Stated on the states in
\* which no handler is running: an item that an approval has set to used has the
\* winner's entry ('borrowed', naming the borrower) in its history.
C6_ApproveAtomic ==
  Quiet =>
    \A i \in DOMAIN items :
      items[i].status = "used" =>
        \E n \in DOMAIN history :
          /\ history[n].item = i /\ history[n].action = "borrowed"
          /\ history[n].about = items[i].last_used_by

\* C7: the item update of approveRequest(r) leaves r's item used by r's requester
\* when r is a use request, and available without borrower when r is a return request.
C7_ApprovedStatus ==
  [][\A s \in Sessions :
       (pc[s] = "ap_update" /\ pc'[s] = "ap_history") =>
         LET row == items'[cur[s].item] IN
         IF cur[s].type = "use"
           THEN row.status = "used" /\ row.last_used_by = cur[s].by
           ELSE row.status = "available" /\ row.last_used_by = None]_vars

\* C7 witness: a return request has just been applied to an item its requester held.
C7_Witness ==
  \E s \in Sessions :
    /\ pc[s] = "ap_history" /\ cur[s].type = "return" /\ cur[s].status = "used"
    /\ items[cur[s].item].status = "available"

\* A step of session s inside rejectRequest, from its first store call to its end.
RejectStep(s) ==
  \/ cur[s].op = "reject" /\ pc'[s] # pc[s]
  \/ \E rid \in 1..MaxRequests : handleApproval(s, rid, FALSE)

\* C8: no step of rejectRequest, succeeding or failing, changes an item record.
C8_RejectLeavesItems ==
  [][\A s \in Sessions : RejectStep(s) => items' = items]_vars

\* C8 witness: a rejection has gone through while the item was in use.
C8_Witness ==
  \E s \in Sessions :
    /\ cur[s].op = "reject" /\ pc[s] = "reload"
    /\ items[cur[s].item].status = "used"
    /\ cur[s].rid \notin Ids(pending)

\* history' is history with one entry added, and that entry satisfies P
Appended(P(_)) ==
  /\ Len(history') = Len(history) + 1
  /\ SubSeq(history', 1, Len(history)) = history
  /\ P(history'[Len(history')])

\* C9: approveRequest(r) with N other pending requests for r's item appends one
\* winner entry and then one 'rejected' entry per other request, naming it, and
\* nothing else: N+1 entries when it completes, and every one of the N requests it
\* then deletes has its 'rejected' entry.
C9_ApproveEntries ==
  [][\A s \in Sessions :
       cur[s].op = "approve" =>
         /\ (pc[s] = "ap_list" /\ pc'[s] = "ap_update") =>
              cur'[s].others = {r \in pending : r.item = cur[s].item /\ r.id # cur[s].rid}
         /\ (pc[s] = "ap_history" /\ pc'[s] = "ap_reject") =>
              LET IsWinner(e) ==
                    /\ e.item = cur[s].item /\ e.about = cur[s].by
                    /\ e.action = IF cur[s].type = "use" THEN "borrowed" ELSE "returned"
              IN  Appended(IsWinner) /\ cur'[s].k = 0
         /\ (pc[s] = "ap_reject" /\ pc'[s] = "ap_reject" /\ cur'[s] # cur[s]) =>
              LET IsLoser(e) ==
                    /\ e.item = cur[s].item /\ e.action = "rejected"
                    /\ \E o \in cur[s].others :
                         /\ Cardinality({x \in cur[s].others : x.id > o.id}) = cur[s].k
                         /\ e.about = o.by /\ e.rtype = o.type
              IN  /\ Appended(IsLoser)
                  /\ cur'[s].k = cur[s].k + 1 /\ cur'[s].others = cur[s].others
         /\ (pc[s] = "ap_reject" /\ pc'[s] = "ap_delete") =>
              history' = history /\ cur[s].k = Cardinality(cur[s].others)
         /\ (pc[s] = "ap_delete" /\ pc'[s] = "reload") =>
              /\ history' = history /\ cur'[s] = cur[s]
              /\ \A o \in cur[s].others :
                   \E n \in DOMAIN history :
                     /\ history[n].item = cur[s].item /\ history[n].action = "rejected"
                     /\ history[n].about = o.by /\ history[n].rtype = o.type]_vars

\* C9 witness: an approval with a competing request has completed, and the
\* history holds the winner's entry and the loser's 'rejected' entry.
C9_Witness ==
  \E s \in Sessions :
    /\ cur[s].op = "approve" /\ pc[s] = "reload"
    /\ Cardinality(cur[s].others) = 1 /\ cur[s].k = 1
    /\ \E m, n \in DOMAIN history :
         /\ m < n
         /\ history[m].action = "borrowed" /\ history[m].about = cur[s].by
         /\ history[n].action = "rejected"
         /\ \E o \in cur[s].others : history[n].about = o.by

\* C10: rejectRequest on a pending request appends one 'rejected' entry and removes
\* the request; a removed id never comes back; and rejectRequest on an id that is
\* not pending fails with NotFound and writes nothing.
C10_RejectTwice ==
  [][\A s \in Sessions :
       /\ (cur[s].op = "reject" /\ pc[s] = "rj_history" /\ pc'[s] = "rj_delete") =>
            LET IsRejected(e) == e.action = "rejected" /\ e.about = cur[s].by
            IN  Appended(IsRejected) /\ pending' = pending
       /\ (cur[s].op = "reject" /\ pc[s] = "rj_delete" /\ pc'[s] = "reload") =>
            cur[s].rid \notin Ids(pending') /\ history' = history
       /\ \A rid \in 1..MaxRequests :
            /\ (rid \notin Ids(pending) /\ handleApproval(s, rid, FALSE)) =>
                 /\ error'[s] = Failed("reject", "NotFound")
                 /\ history' = history /\ pending' = pending /\ items' = items
            /\ (rid < nextId /\ rid \notin Ids(pending)) => rid \notin Ids(pending')]_vars

\* C10 witness: the only request ever made was rejected once, and a second
\* rejectRequest on it has failed with NotFound; the history holds one 'rejected' entry.
C10_Witness ==
  \E s \in Sessions :
    /\ error[s] = Failed("reject", "NotFound")
    /\ nextId = 2 /\ pending = {}
    /\ Len(history) = 2 /\ history[2].action = "rejected"

\* C11: restore after archive.  The item update of a restore leaves the item
\* available with last_used_by, archived_reason and archived_at all null, and the
\* restore then appends one history entry for that item (archived -> available).
C11_ArchiveRestoreRoundTrip ==
  [][\A s \in Sessions :
       /\ (pc[s] = "idle" /\ pc'[s] = "un_history") =>
            LET row == items'[cur'[s].item] IN
            /\ row.status = "available" /\ row.last_used_by = None
            /\ row.archived_reason = None /\ row.archived_at = None
       /\ (pc[s] = "un_history" /\ pc'[s] = "reload") =>
            LET IsRestore(e) ==
                  /\ e.item = cur[s].item /\ e.by = userId[s]
                  /\ e.prev = "archived" /\ e.new = "available"
            IN  Appended(IsRestore) /\ items' = items]_vars

\* C11 witness: an item that was archived (with its reason and date stored) has been
\* restored; both operations are in the history and the item is clean.
C11_Witness ==
  \E s \in Sessions :
    /\ cur[s].op = "restore" /\ pc[s] = "reload"
    /\ \E m, n \in DOMAIN history :
         /\ m < n /\ history[m].action = "archived" /\ history[n].action = "edited"
    /\ items[cur[s].item] = [NewItem EXCEPT !.changed_by = userId[s]]

\* C12: a return request is created only after the store has shown the item used
\* by the requester.  createRequest's validation passes exactly when the stored item
\* is used with last_used_by = requester; otherwise the call ends with
\* NotAuthorizedForReturn and nothing is written; and a return request reaches the
\* insert only through a validation that passed.
C12_ReturnNeedsBorrower ==
  [][\A s \in Sessions :
       /\ pc[s] = "cr_validate" /\ pc'[s] # pc[s] =>
            LET row == items[cur[s].item] IN
            IF row.status = "used" /\ row.last_used_by = cur[s].by
              THEN pc'[s] = "cr_insert" /\ cur'[s] = cur[s]
              ELSE /\ pc'[s] = "idle"
                   /\ error'[s] = Failed("submit", "NotAuthorizedForReturn")
                   /\ pending' = pending /\ history' = history /\ items' = items
       /\ (pc'[s] = "cr_insert" /\ pc[s] # "cr_insert" /\ cur'[s].type = "return") =>
            /\ pc[s] = "cr_validate"
            /\ items[cur'[s].item].status = "used"
            /\ items[cur'[s].item].last_used_by = cur'[s].by
       /\ \A r \in pending' \ pending :
            r.type = "return" =>
              \E t \in Sessions : pc[t] = "cr_insert" /\ cur[t].type = "return" /\ cur[t].by = r.by]_vars

\* C12 witness: a user whose page still showed the item as borrowed by them asked
\* to return it after the return had already been approved: refused, nothing queued.
C12_Witness ==
  \E s \in Sessions :
    /\ error[s] = Failed("submit", "NotAuthorizedForReturn")
    /\ pending = {}
    /\ \A i \in DOMAIN items : items[i].status = "available"

\* C13: an archive never goes through on an item whose stored status is used: the
\* step that starts an archive on such an item changes neither the item nor the
\* history and ends the call with InvalidState.
C13_ArchiveUsedRefused ==
  [][\A s \in Sessions, i \in ItemIds :
       (confirmArchive(s, i) /\ items[i].status = "used") =>
         /\ items' = items /\ history' = history
         /\ pc'[s] = "idle" /\ error'[s] = Failed("archive", "InvalidState")]_vars

\* C14: a use request is queued only while the stored status of the item is
\* available: no pending_requests row of type use is inserted, and no
\* 'requested_borrow' entry written, for an item that is used or archived in the store.
C14_UseNeedsAvailable ==
  [][/\ \A r \in pending' \ pending :
          r.type = "use" => items[r.item].status = "available"
     /\ \A s \in Sessions :
          (pc[s] = "hbr_history" /\ pc'[s] = "reload" /\ cur[s].type = "use") =>
            items[cur[s].item].status = "available"]_vars

\* C15: a submit for a tuple (item, user, type) that already has a pending request
\* ends with DuplicateRequest and changes neither the queue, the items nor the history.
C15_DuplicateRefused ==
  [][\A s \in Sessions, i \in ItemIds :
       (/\ handleBorrowReturn(s, i)
        /\ \E r \in pending :
             /\ r.item = i /\ r.by = userId[s]
             /\ r.type = IF cache[s].items[i].status = "available" THEN "use" ELSE "return")
         => /\ pc'[s] = "idle" /\ error'[s] = Failed("submit", "DuplicateRequest")
            /\ pending' = pending /\ items' = items /\ history' = history]_vars

\* C16: a submit changes no item, and its one history entry ('requested_borrow' for
\* use, 'requested_return' for return) carries as previous and new status the status
\* the item has in the store when the request is inserted.
C16_SubmitEntry ==
  [][\A s \in Sessions :
       /\ (pc[s] = "cr_insert" /\ pc'[s] = "hbr_history") =>
            /\ items' = items /\ history' = history
            /\ cur[s].status = items[cur[s].item].status
       /\ (pc[s] = "hbr_history" /\ pc'[s] = "reload") =>
            LET IsRequested(e) ==
                  /\ e.item = cur[s].item /\ e.by = cur[s].by
                  /\ e.action = IF cur[s].type = "use" THEN "requested_borrow"
                                                       ELSE "requested_return"
                  /\ e.prev = cur[s].status /\ e.new = cur[s].status
            IN  items' = items /\ Appended(IsRequested)]_vars

\* C17: in the history of an item every 'borrowed' (resp. 'returned') entry has,
\* before it, a 'requested_borrow' (resp. 'requested_return') entry written by the
\* requester the approval names.
C17_RequestedBeforeDecided ==
  \A n \in DOMAIN history :
    history[n].action \in {"borrowed", "returned"} =>
      \E m \in 1..(n - 1) :
        /\ history[m].item = history[n].item
        /\ history[m].by = history[n].about
        /\ history[m].action = IF history[n].action = "borrowed" THEN "requested_borrow"
                                                                 ELSE "requested_return"

\* C18: the status of an archived item is changed only by the item update of a
\* restore, and then to available.
C18_ArchivedLeftByRestore ==
  [][\A i \in DOMAIN items :
       (items[i].status = "archived" /\ items'[i].status # "archived") =>
         /\ items'[i].status = "available"
         /\ \E s \in Sessions :
              pc[s] = "idle" /\ pc'[s] = "un_history" /\ cur'[s].item = i]_vars

\* C19: a restore goes through only on an item whose stored status is archived: the
\* step that starts a restore on any other item changes neither the item nor the
\* history and ends the call with InvalidState.
C19_RestoreNeedsArchived ==
  [][\A s \in Sessions, i \in ItemIds :
       (confirmUnarchive(s, i) /\ items[i].status # "archived") =>
         /\ items' = items /\ history' = history
         /\ pc'[s] = "idle" /\ error'[s] = Failed("restore", "InvalidState")]_vars

\* Session s invokes a core operation: submit, approve, reject, archive or restore.
CoreCall(s) ==
  \/ \E i \in ItemIds : handleBorrowReturn(s, i)
  \/ \E rid \in 1..MaxRequests, approve \in BOOLEAN : handleApproval(s, rid, approve)
  \/ \E i \in ItemIds : confirmArchive(s, i)
  \/ \E i \in ItemIds : confirmUnarchive(s, i)

\* C20: a core operation invoked by a user whose account is not active when the
\* call is made, also one switched off after the login, ends with Unauthorized and
\* changes no item, no request and no history.
C20_InactiveRefused ==
  [][\A s \in Sessions :
       (userId[s] # None /\ ~active[userId[s]] /\ CoreCall(s)) =>
         /\ pc'[s] = "idle" /\ error'[s].kind = "Unauthorized"
         /\ items' = items /\ pending' = pending /\ history' = history]_vars

\* C21: the history is append-only: in every step the entries already there stay,
\* unchanged and in place, as a prefix of the history afterwards.
C21_HistoryAppendOnly ==
  [][/\ Len(history') >= Len(history)
     /\ SubSeq(history', 1, Len(history)) = history]_vars

\* C21 witness: the history has grown to MaxHistory entries, among them, in the
\* order of writing, those of a submit, an archive and a restore.
C21_Witness ==
  /\ Len(history) = MaxHistory
  /\ \E a, b, c \in DOMAIN history :
       /\ a < b /\ b < c
       /\ history[a].action = "requested_borrow"
       /\ history[b].action = "archived"
       /\ history[c].action = "edited"

\* C22: every 'rejected' entry that approveRequest writes for a losing request has
\* previous_status and new_status both equal to the status computed for the winner.
C22_LoserEntryStatuses ==
  [][\A s \in Sessions :
       (cur[s].op = "approve" /\ pc[s] = "ap_reject" /\ cur'[s].k = cur[s].k + 1) =>
         LET e == history'[Len(history')] IN
         /\ e.action = "rejected"
         /\ e.prev = NewStatus(cur[s].type)
         /\ e.new = NewStatus(cur[s].type)]_vars

\* C23: the winner's entry has action 'borrowed' for use and 'returned' for return,
\* as previous status the status the item has in the store just before the
\* approval's update, and as new status the status the update gives it.
C23_WinnerEntryStatuses ==
  [][\A s \in Sessions :
       /\ (pc[s] = "ap_update" /\ pc'[s] = "ap_history") =>
            /\ cur[s].status = items[cur[s].item].status
            /\ items'[cur[s].item].status = NewStatus(cur[s].type)
       /\ (pc[s] = "ap_history" /\ pc'[s] = "ap_reject") =>
            LET e == history'[Len(history')] IN
            /\ Len(history') = Len(history) + 1
            /\ e.action = IF cur[s].type = "use" THEN "borrowed" ELSE "returned"
            /\ e.prev = cur[s].status
            /\ e.new = NewStatus(cur[s].type)]_vars

\* C24: rejectRequest(r) reads r's item, appends one 'rejected' entry whose previous
\* and new status are both the status it read, and then removes r and only r: all
\* other pending requests, of the same item or of another, stay pending.
C24_RejectRemovesOnlyR ==
  [][\A s \in Sessions :
       /\ \A rid \in Ids(pending) :
            handleApproval(s, rid, FALSE) =>
              \E r \in pending :
                /\ r.id = rid /\ cur'[s].item = r.item
                /\ cur'[s].status = items[r.item].status
                /\ pending' = pending /\ history' = history
       /\ (cur[s].op = "reject" /\ pc[s] = "rj_history" /\ pc'[s] = "rj_delete") =>
            LET IsRejected(e) ==
                  /\ e.item = cur[s].item /\ e.action = "rejected"
                  /\ e.prev = cur[s].status /\ e.new = cur[s].status
            IN  Appended(IsRejected) /\ pending' = pending
       /\ (cur[s].op = "reject" /\ pc[s] = "rj_delete" /\ pc'[s] = "reload") =>
            /\ pending' = {r \in pending : r.id # cur[s].rid}
            /\ history' = history]_vars

\* C24 witness: a request has been rejected while a request for another item was
\* pending, and that one is still pending.
C24_Witness ==
  \E s \in Sessions :
    /\ cur[s].op = "reject" /\ pc[s] = "reload"
    /\ cur[s].rid \notin Ids(pending)
    /\ \E r \in pending : r.item # cur[s].item
    /\ history[Len(history)].action = "rejected"

\* C25: a submit leaves the request and its history entry together or neither.
\* Stated on the states in which no handler is running: every pending request has
\* a 'requested_borrow' (use) or 'requested_return' (return) entry of its item
\* written by its requester.
C25_SubmitAtomic ==
  Quiet =>
    \A r \in pending :
      \E n \in DOMAIN history :
        /\ history[n].item = r.item /\ history[n].by = r.by
        /\ history[n].action = IF r.type = "use" THEN "requested_borrow"
                                                  ELSE "requested_return"

\* C26: only an admin's request to approve or reject does anything: such a request
\* by a user of another role changes no item, no pending request and no history
\* entry and starts no operation, and every running approve or reject is an admin's.
C26_DecisionsByAdminOnly ==
  [][\A s \in Sessions :
       /\ (/\ userId[s] \notin Admins \cup {None}
           /\ \E rid \in 1..MaxRequests, approve \in BOOLEAN :
                handleApproval(s, rid, approve) \/ handleApprovalDenied(s, rid, approve))
            => /\ items' = items /\ pending' = pending /\ history' = history
               /\ pc'[s] = "idle" /\ cur'[s] = NoCur
       /\ cur'[s].op \in {"approve", "reject"} => userId[s] \in Admins]_vars

\* C26 witness: an employee, with a pending request on screen, asked for an
\* approval; the call returned and the request is still pending.
C26_Witness ==
  \E s \in Sessions :
    /\ userId[s] \in Employees
    /\ error[s] = Failed("approve", "Returned")
    /\ pending # {} /\ history # <<>>
    /\ \A i \in DOMAIN items : items[i].status = "available"

\* C27 (first half): a logged-in user whose last activity event is less than
\* SessionMinutes old is never logged out by the session machinery: whenever
\* the inactivity timer or the session check logs a session out, that session
\* has been without activity for at least SessionMinutes.
C27_ActiveNeverLoggedOut ==
  [][\A s \in Sessions :
       (autoLogoutTimeout(s) \/ checkSessionTime(s)) =>
         sinceActivity[s] >= SessionMinutes]_vars

\* C28: no request leaves the queue through approveRequest unaccounted for: every
\* row the approval's bulk delete removes is the approved request itself or has a
\* 'rejected' entry in the history naming its item, its requester and its type,
\* also when it was submitted while the approval was running.
C28_DeletedAccounted ==
  [][\A s \in Sessions :
       (pc[s] = "ap_delete" /\ pc'[s] = "reload") =>
         \A r \in pending \ pending' :
           \/ r.id = cur[s].rid
           \/ \E n \in DOMAIN history :
                /\ history[n].item = r.item /\ history[n].action = "rejected"
                /\ history[n].about = r.by /\ history[n].rtype = r.type]_vars

\* C29: each pending request receives at most one terminal history entry
\* ('borrowed', 'returned' or 'rejected').  Terminal entries are written only on
\* behalf of a request, so the history never holds more terminal entries than
\* requests were ever inserted (nextId - 1).
C29_OneTerminalEntry ==
  Cardinality({n \in DOMAIN history :
                 history[n].action \in {"borrowed", "returned", "rejected"}})
    <= nextId - 1

\* C30: in every reachable state each item's status is 'available', 'used' or
\* 'archived' (the schema's 'pending_borrow' and 'pending_return' are never
\* assigned), and an item that createItem adds starts as 'available'.
C30_StatusValues ==
  /\ [](\A i \in DOMAIN items : items[i].status \in {"available", "used", "archived"})
  /\ [][\A i \in DOMAIN items' \ DOMAIN items : items'[i].status = "available"]_vars

\* C30 witness: an item was created while the system ran, it has since been
\* borrowed through an approval, and the other item has been archived.
C30_Witness ==
  /\ DOMAIN items = ItemIds
  /\ \E i \in ItemIds \ Stock : items[i].status = "used"
  /\ \E i \in Stock : items[i].status = "archived"
====
